---- MODULE Spec2Model ----
(***************************************************************************)
(* Model of package protocol (watchdog-proto): the message envelope, the   *)
(* payload records, NewMessage / MustNewMessage / ParsePayload and the     *)
(* nine named constructors.  encoding/json is modelled by what it does to  *)
(* these records: struct tags (key, omitempty), string coercion and        *)
(* escaping, case-insensitive key matching, null handling and the          *)
(* "skip the field, keep going, report the first error" rule of Unmarshal. *)
(***************************************************************************)
EXTENDS Integers, Sequences, FiniteSets, TLC

VARIABLES tz, clock, pc, op, args, src, msg, err, panicked, dst0, dst,
          cpc, ccall, cdata, cret, cdst, env

vars == <<tz, clock, pc, op, args, src, msg, err, panicked, dst0, dst,
          cpc, ccall, cdata, cret, cdst, env>>

seqVars == <<pc, op, args, src, msg, err, panicked, dst0, dst>>
concVars == <<cpc, ccall, cdata, cret, cdst, env>>

----------------------------------------------------------------------------
(* Bounds *)

MaxInt == 1
MaxClock == 1
MaxMembers == 2
NumCallers == 2

----------------------------------------------------------------------------
(* Message type tags *)

MsgTypeAuth == "auth"
MsgTypeAuthAck == "auth_ack"
MsgTypeAuthError == "auth_error"
MsgTypeTask == "task"
MsgTypeHeartbeat == "heartbeat"
MsgTypePing == "ping"
MsgTypePong == "pong"
MsgTypeTaskCancelSameAsTask == "task"
MsgTypeTaskCancel == "task_cancel"
MsgTypeError == "error"

MsgTypes == {MsgTypeAuth, MsgTypeAuthAck, MsgTypeAuthError, MsgTypeTask,
             MsgTypeHeartbeat, MsgTypePing, MsgTypePong, MsgTypeTaskCancel,
             MsgTypeError}

\* msgType is an unconstrained string: callers may pass a tag outside the set
AnyTags == MsgTypes \cup {"custom"}

----------------------------------------------------------------------------
(* Go values *)

\* A Go string is a sequence of bytes/runes.  "a" is plain ASCII, "<" is
\* ASCII that the encoder HTML-escapes, "xFF" is a byte that is not valid
\* UTF-8, "uFFFD" is the Unicode replacement rune.
Strs == {<<>>, <<"a", "<">>, <<"a", "xFF">>}

ValidUTF8(s) == \A i \in 1..Len(s) : s[i] # "xFF"

Ints == (0 - MaxInt)..MaxInt

\* *int: <<>> is the nil pointer, <<n>> points to n
IntPtrs == {<<>>} \cup {<<n>> : n \in Ints}

\* process-local time zones, as minutes east of UTC
Zones == {0, 330}

\* time.Now(): the current instant, in the Local location
TimeNow == [instant |-> clock, offset |-> tz]

----------------------------------------------------------------------------
(* Payload records and their struct tags *)

Fld(name, key, typ, omitempty) ==
    [name |-> name, key |-> key, typ |-> typ, omitempty |-> omitempty]

AuthFields == <<Fld("APIKey", "api_key", "string", FALSE),
                Fld("Version", "version", "string", TRUE)>>

AuthAckFields == <<Fld("AgentID", "agent_id", "string", FALSE),
                   Fld("AgentName", "agent_name", "string", FALSE)>>

AuthErrorFields == <<Fld("Error", "error", "string", FALSE)>>

TaskFields == <<Fld("MonitorID", "monitor_id", "string", FALSE),
                Fld("Type", "type", "string", FALSE),
                Fld("Target", "target", "string", FALSE),
                Fld("Interval", "interval", "int", FALSE),
                Fld("Timeout", "timeout", "int", FALSE)>>

HeartbeatFieldsNoOmit == <<Fld("MonitorID", "monitor_id", "string", FALSE),
                     Fld("Status", "status", "string", FALSE),
                     Fld("LatencyMs", "latency_ms", "int", FALSE),
                     Fld("ErrorMessage", "error_message", "string", TRUE),
                     Fld("CertExpiryDays", "cert_expiry_days", "ptrint", TRUE),
                     Fld("CertIssuer", "cert_issuer", "string", TRUE)>>

HeartbeatFields == <<Fld("MonitorID", "monitor_id", "string", FALSE),
                     Fld("Status", "status", "string", FALSE),
                     Fld("LatencyMs", "latency_ms", "int", TRUE),
                     Fld("ErrorMessage", "error_message", "string", TRUE),
                     Fld("CertExpiryDays", "cert_expiry_days", "ptrint", TRUE),
                     Fld("CertIssuer", "cert_issuer", "string", TRUE)>>

TaskCancelFields == <<Fld("MonitorID", "monitor_id", "string", FALSE)>>

ErrorFields == <<Fld("Code", "code", "string", FALSE),
                 Fld("Message", "message", "string", FALSE)>>

PayloadTypes == {"AuthPayload", "AuthAckPayload", "AuthErrorPayload",
                 "TaskPayload", "TaskCancelPayload", "HeartbeatPayload",
                 "ErrorPayload"}

Fields(P) ==
    CASE P = "AuthPayload" -> AuthFields
      [] P = "AuthAckPayload" -> AuthAckFields
      [] P = "AuthErrorPayload" -> AuthErrorFields
      [] P = "TaskPayload" -> TaskFields
      [] P = "TaskCancelPayload" -> TaskCancelFields
      [] P = "HeartbeatPayload" -> HeartbeatFields
      [] P = "ErrorPayload" -> ErrorFields

AuthPayload(apiKey, version) ==
    [t |-> "AuthPayload", f |-> [APIKey |-> apiKey, Version |-> version]]

AuthAckPayload(agentID, agentName) ==
    [t |-> "AuthAckPayload", f |-> [AgentID |-> agentID, AgentName |-> agentName]]

AuthErrorPayload(e) ==
    [t |-> "AuthErrorPayload", f |-> [Error |-> e]]

TaskPayload(monitorID, monitorType, target, interval, timeout) ==
    [t |-> "TaskPayload",
     f |-> [MonitorID |-> monitorID, Type |-> monitorType, Target |-> target,
            Interval |-> interval, Timeout |-> timeout]]

TaskCancelPayload(monitorID) ==
    [t |-> "TaskCancelPayload", f |-> [MonitorID |-> monitorID]]

HeartbeatPayload(monitorID, status, latencyMs, errorMsg, certExpiryDays, certIssuer) ==
    [t |-> "HeartbeatPayload",
     f |-> [MonitorID |-> monitorID, Status |-> status, LatencyMs |-> latencyMs,
            ErrorMessage |-> errorMsg, CertExpiryDays |-> certExpiryDays,
            CertIssuer |-> certIssuer]]

ErrorPayload(code, message) ==
    [t |-> "ErrorPayload", f |-> [Code |-> code, Message |-> message]]

\* the Go zero value of a field type
ZeroOf(typ) ==
    CASE typ = "string" -> <<>>
      [] typ = "int" -> 0
      [] typ = "ptrint" -> <<>>

FieldNames(P) == {Fields(P)[i].name : i \in 1..Len(Fields(P))}

FieldByName(P, n) == Fields(P)[CHOOSE i \in 1..Len(Fields(P)) : Fields(P)[i].name = n]

\* var v P: every field at its zero value
ZeroValue(P) ==
    [t |-> P, f |-> [n \in FieldNames(P) |-> ZeroOf(FieldByName(P, n).typ)]]

\* a destination that already holds data from an earlier use
UsedValue(P) ==
    [t |-> P,
     f |-> [n \in FieldNames(P) |->
              CASE FieldByName(P, n).typ = "string" -> <<"o">>
                [] FieldByName(P, n).typ = "int" -> 1
                [] FieldByName(P, n).typ = "ptrint" -> <<1>>]]

\* the instances of each payload record
Instances(P) ==
    CASE P = "AuthPayload" -> {AuthPayload(a, v) : a \in Strs, v \in Strs}
      [] P = "AuthAckPayload" -> {AuthAckPayload(a, v) : a \in Strs, v \in Strs}
      [] P = "AuthErrorPayload" -> {AuthErrorPayload(e) : e \in Strs}
      [] P = "TaskPayload" ->
           {TaskPayload(m, ty, tg, i, to) :
              m \in Strs, ty \in Strs, tg \in Strs, i \in Ints, to \in Ints}
      [] P = "TaskCancelPayload" -> {TaskCancelPayload(m) : m \in Strs}
      [] P = "HeartbeatPayload" ->
           {HeartbeatPayload(m, s, l, e, c, ci) :
              m \in Strs, s \in Strs, l \in Ints, e \in Strs, c \in IntPtrs, ci \in Strs}
      [] P = "ErrorPayload" -> {ErrorPayload(c, m) : c \in Strs, m \in Strs}

Records == UNION {Instances(P) : P \in PayloadTypes}

\* payload any: the nil interface, a payload record, a typed nil pointer to
\* a record, or a value encoding/json cannot encode (a channel, a func)
NilValue == [t |-> "nil", f |-> <<>>]
NilPointer == [t |-> "nilptr", f |-> <<>>]
ChanValue == [t |-> "chan", f |-> <<>>]

AnyValues == Records \cup {NilValue, NilPointer, ChanValue}

----------------------------------------------------------------------------
(* JSON texts (json.RawMessage contents) *)

\* k: "nil" (nil slice), "empty" (zero-length, non-nil), "invalid" (bytes
\* that are not a JSON text), "null", "string", "number" (an integer
\* literal), "fraction" (a number literal that is not an integer, 1.5),
\* "object" (members in wire order, each a key and a scalar value).
JVal(k, s, n, m) == [k |-> k, s |-> s, n |-> n, m |-> m]

NilBytes == JVal("nil", <<>>, 0, <<>>)
EmptyBytes == JVal("empty", <<>>, 0, <<>>)
InvalidBytes == JVal("invalid", <<>>, 0, <<>>)
JNull == JVal("null", <<>>, 0, <<>>)
JFraction == JVal("fraction", <<>>, 0, <<>>)
JString(w) == JVal("string", w, 0, <<>>)
JNumber(n) == JVal("number", <<>>, n, <<>>)
JObject(m) == JVal("object", <<>>, 0, m)
Member(key, val) == [key |-> key, val |-> val]

\* one rune of a Go string as the encoder writes it inside a JSON string:
\* "<" is written as a six-character escape, an invalid byte as the escape
\* of the replacement rune
EncodeChar(c) ==
    CASE c = "<" -> "\\u003c"
      [] c = "xFF" -> "\\ufffd"
      [] OTHER -> c

\* one character of a JSON string literal as the decoder reads it
DecodeChar(w) ==
    CASE w = "\\u003c" -> "<"
      [] w = "\\ufffd" -> "uFFFD"
      [] w = "xFF" -> "uFFFD"
      [] OTHER -> w

EncodeString(s) == [i \in 1..Len(s) |-> EncodeChar(s[i])]
DecodeString(w) == [i \in 1..Len(w) |-> DecodeChar(w[i])]

\* omitempty: false, 0, nil pointer, empty string
IsEmptyValueZeroPtr(typ, v) ==
    CASE typ = "string" -> v = <<>>
      [] typ = "int" -> v = 0
      [] typ = "ptrint" -> v = <<>> \/ v = <<0>>
IsEmptyValue(typ, v) ==
    CASE typ = "string" -> v = <<>>
      [] typ = "int" -> v = 0
      [] typ = "ptrint" -> v = <<>>

EncodeValue(typ, v) ==
    CASE typ = "string" -> JString(EncodeString(v))
      [] typ = "int" -> JNumber(v)
      [] typ = "ptrint" -> IF v = <<>> THEN JNull ELSE JNumber(v[1])

RECURSIVE EncodeFields(_, _)
EncodeFields(flds, f) ==
    IF flds = <<>> THEN <<>>
    ELSE LET fd == Head(flds)
             v == f[fd.name]
         IN IF fd.omitempty /\ IsEmptyValue(fd.typ, v)
            THEN EncodeFields(Tail(flds), f)
            ELSE <<Member(fd.key, EncodeValue(fd.typ, v))>> \o EncodeFields(Tail(flds), f)

\* json.Marshal(payload): the bytes and the error
Marshal(payload) ==
    CASE payload.t = "chan" -> [data |-> NilBytes, err |-> "UnsupportedTypeError"]
      [] payload.t = "nil" -> [data |-> JNull, err |-> "nil"]
      [] payload.t = "nilptr" -> [data |-> JNull, err |-> "nil"]
      [] OTHER -> [data |-> JObject(EncodeFields(Fields(payload.t), payload.f)),
                   err |-> "nil"]

----------------------------------------------------------------------------
(* json.Unmarshal into a payload record *)

\* keys seen on the wire that differ from a tag only by letter case
FoldKey(key) ==
    CASE key = "MONITOR_ID" -> "monitor_id"
      [] key = "Interval" -> "interval"
      [] OTHER -> key

\* the field a wire key selects: an exact match on the tag, else a
\* case-insensitive one; 0 when the record has no such field
FieldIndex(P, key) ==
    IF \E i \in 1..Len(Fields(P)) : Fields(P)[i].key = key
    THEN CHOOSE i \in 1..Len(Fields(P)) : Fields(P)[i].key = key
    ELSE IF \E i \in 1..Len(Fields(P)) : Fields(P)[i].key = FoldKey(key)
    THEN CHOOSE i \in 1..Len(Fields(P)) : Fields(P)[i].key = FoldKey(key)
    ELSE 0

\* whether a JSON value can be stored into a field of the type
WellTyped(typ, val) ==
    CASE typ = "string" -> val.k = "string"
      [] typ = "int" -> val.k = "number"
      [] typ = "ptrint" -> val.k = "number"

\* store one member value into a field holding cur.  null leaves a plain
\* field alone and sets a pointer to nil; a mismatched value is reported and
\* the field skipped, but a nil pointer has been allocated by then.
StoreValueZeroOnMismatch(typ, cur, val) ==
    IF val.k = "null" THEN [v |-> ZeroOf(typ), err |-> "nil"]
    ELSE IF ~WellTyped(typ, val)
    THEN [v |-> ZeroOf(typ), err |-> "UnmarshalTypeError"]
    ELSE CASE typ = "string" -> [v |-> DecodeString(val.s), err |-> "nil"]
           [] typ = "int" -> [v |-> val.n, err |-> "nil"]
           [] typ = "ptrint" -> [v |-> <<val.n>>, err |-> "nil"]
StoreValue(typ, cur, val) ==
    IF val.k = "null"
    THEN [v |-> IF typ = "ptrint" THEN <<>> ELSE cur, err |-> "nil"]
    ELSE IF ~WellTyped(typ, val)
    THEN [v |-> IF typ = "ptrint" /\ cur = <<>> THEN <<0>> ELSE cur,
          err |-> "UnmarshalTypeError"]
    ELSE CASE typ = "string" -> [v |-> DecodeString(val.s), err |-> "nil"]
           [] typ = "int" -> [v |-> val.n, err |-> "nil"]
           [] typ = "ptrint" -> [v |-> <<val.n>>, err |-> "nil"]

\* decode the members in wire order; e is the first error saved so far
RECURSIVE DecodeMembers(_, _, _, _)
DecodeMembers(members, P, f, e) ==
    IF members = <<>> THEN [f |-> f, err |-> e]
    ELSE LET mb == Head(members)
             i == FieldIndex(P, mb.key)
         IN IF i = 0
            THEN DecodeMembers(Tail(members), P, f, e)
            ELSE LET fd == Fields(P)[i]
                     r == StoreValue(fd.typ, f[fd.name], mb.val)
                 IN DecodeMembers(Tail(members), P,
                                  [f EXCEPT ![fd.name] = r.v],
                                  IF e = "nil" THEN r.err ELSE e)

\* json.Unmarshal(data, v), v a pointer to the payload record d
UnmarshalResetFirst(data, d) ==
    CASE data.k \in {"nil", "empty", "invalid"} -> [v |-> d, err |-> "SyntaxError"]
      [] data.k = "null" -> [v |-> ZeroValue(d.t), err |-> "nil"]
      [] data.k \in {"string", "number", "fraction"} ->
           [v |-> d, err |-> "UnmarshalTypeError"]
      [] data.k = "object" ->
           LET r == DecodeMembers(data.m, d.t, ZeroValue(d.t).f, "nil")
           IN [v |-> [t |-> d.t, f |-> r.f], err |-> r.err]
Unmarshal(data, d) ==
    CASE data.k \in {"nil", "empty", "invalid"} -> [v |-> d, err |-> "SyntaxError"]
      [] data.k = "null" -> [v |-> d, err |-> "nil"]
      [] data.k \in {"string", "number", "fraction"} ->
           [v |-> d, err |-> "UnmarshalTypeError"]
      [] data.k = "object" ->
           LET r == DecodeMembers(data.m, d.t, d.f, "nil")
           IN [v |-> [t |-> d.t, f |-> r.f], err |-> r.err]

----------------------------------------------------------------------------
(* The envelope *)

Message(type, payload, timestamp) ==
    [Type |-> type, Payload |-> payload, Timestamp |-> timestamp]

\* a nil *Message
NoMsg == Message("", NilBytes, [instant |-> 0 - 1, offset |-> 0])

NewMessage(msgType, payload) ==
    IF payload # NilValue /\ Marshal(payload).err # "nil"
    THEN [msg |-> NoMsg, err |-> Marshal(payload).err]
    ELSE [msg |-> Message(msgType,
                          IF payload # NilValue THEN Marshal(payload).data
                                                ELSE NilBytes,
                          TimeNow),
          err |-> "nil"]

ParsePayload(m, v) ==
    IF m.Payload = NilBytes THEN [v |-> v, err |-> "nil"]
    ELSE Unmarshal(m.Payload, v)

MustNewMessageIgnoreErr(msgType, payload) ==
    [msg |-> NewMessage(msgType, payload).msg, panic |-> FALSE]
MustNewMessage(msgType, payload) ==
    IF NewMessage(msgType, payload).err # "nil"
    THEN [msg |-> NoMsg, panic |-> TRUE]
    ELSE [msg |-> NewMessage(msgType, payload).msg, panic |-> FALSE]

NewAuthMessage(apiKey, version) ==
    MustNewMessage(MsgTypeAuth, AuthPayload(apiKey, version))

NewAuthAckMessage(agentID, agentName) ==
    MustNewMessage(MsgTypeAuthAck, AuthAckPayload(agentID, agentName))

NewAuthErrorMessage(e) ==
    MustNewMessage(MsgTypeAuthError, AuthErrorPayload(e))

NewTaskMessage(monitorID, monitorType, target, interval, timeout) ==
    MustNewMessage(MsgTypeTask,
                   TaskPayload(monitorID, monitorType, target, interval, timeout))

NewTaskCancelMessage(monitorID) ==
    MustNewMessage(MsgTypeTaskCancel, TaskCancelPayload(monitorID))

NewHeartbeatMessageSwapped(monitorID, status, latencyMs, errorMsg) ==
    MustNewMessage(MsgTypeHeartbeat,
                   HeartbeatPayload(monitorID, status, latencyMs, <<>>, <<>>, errorMsg))
NewHeartbeatMessage(monitorID, status, latencyMs, errorMsg) ==
    MustNewMessage(MsgTypeHeartbeat,
                   HeartbeatPayload(monitorID, status, latencyMs, errorMsg, <<>>, <<>>))

NewPingMessage == MustNewMessage(MsgTypePing, NilValue)

NewPongMessage == MustNewMessage(MsgTypePong, NilValue)

NewErrorMessage(code, message) ==
    MustNewMessage(MsgTypeError, ErrorPayload(code, message))

----------------------------------------------------------------------------
(* Inputs of the calls *)

\* the tag each payload record travels under
TagOf(P) ==
    CASE P = "AuthPayload" -> MsgTypeAuth
      [] P = "AuthAckPayload" -> MsgTypeAuthAck
      [] P = "AuthErrorPayload" -> MsgTypeAuthError
      [] P = "TaskPayload" -> MsgTypeTask
      [] P = "TaskCancelPayload" -> MsgTypeTaskCancel
      [] P = "HeartbeatPayload" -> MsgTypeHeartbeat
      [] P = "ErrorPayload" -> MsgTypeError

\* members of payload objects received from a peer
SampleMembers ==
    {Member("monitor_id", JString(<<"a">>)),
     Member("MONITOR_ID", JString(<<"\\u003c">>)),
     Member("monitor_id", JNull),
     Member("interval", JString(<<"a">>)),
     Member("Interval", JNumber(0)),
     Member("timeout", JFraction),
     Member("cert_expiry_days", JNull),
     Member("cert_expiry_days", JString(<<"a">>)),
     Member("extra", JNumber(1))}

MemberSeqs == UNION {[1..n -> SampleMembers] : n \in 0..MaxMembers}

\* payload bytes of an envelope that was not built by NewMessage
LiteralPayloads ==
    {NilBytes, EmptyBytes, InvalidBytes, JNull, JString(<<"a">>), JFraction}
      \cup {JObject(m) : m \in MemberSeqs}

\* a destination: a pointer to a fresh record or to one used before
Destinations == {ZeroValue(P) : P \in PayloadTypes} \cup {UsedValue(P) : P \in PayloadTypes}

NoDst == [t |-> "none", f |-> <<>>]

----------------------------------------------------------------------------
(* One caller: a construction, then an extraction *)

IdleCallers ==
    /\ cpc = [c \in 1..NumCallers |-> "unused"]
    /\ ccall = [c \in 1..NumCallers |-> <<>>]
    /\ cdata = [c \in 1..NumCallers |-> <<>>]
    /\ cret = [c \in 1..NumCallers |-> <<>>]
    /\ cdst = [c \in 1..NumCallers |-> NoDst]
    /\ env = NoMsg

Init ==
    /\ tz \in Zones
    /\ clock \in 0..MaxClock
    /\ pc = "idle"
    /\ op = "none"
    /\ args = <<>>
    /\ src = NilValue
    /\ msg = NoMsg
    /\ err = "nil"
    /\ panicked = FALSE
    /\ dst0 = NoDst
    /\ dst = NoDst
    /\ IdleCallers

\* a constructor returns: o the function, a its arguments, s the payload
\* value it was given, m/e/p the envelope, the error and whether it panicked
Returned(o, a, s, m, e, p) ==
    /\ pc' = "built"
    /\ op' = o
    /\ args' = a
    /\ src' = s
    /\ msg' = m
    /\ err' = e
    /\ panicked' = p
    /\ UNCHANGED <<tz, clock, dst0, dst, concVars>>

NewMessageCallOn(tags, values) ==
    /\ pc = "idle"
    /\ \E msgType \in tags, payload \in values :
          Returned("NewMessage", [msgType |-> msgType, payload |-> payload], payload,
                   NewMessage(msgType, payload).msg, NewMessage(msgType, payload).err,
                   FALSE)

NewMessageCall == NewMessageCallOn(AnyTags, AnyValues)

\* NewMessage(tag of P, p) for the payload records
NewMessageRecordCall ==
    /\ pc = "idle"
    /\ \E p \in Records : NewMessageCallOn({TagOf(p.t)}, {p})

MustNewMessageCall ==
    /\ pc = "idle"
    /\ \E msgType \in AnyTags, payload \in AnyValues :
          Returned("MustNewMessage", [msgType |-> msgType, payload |-> payload], payload,
                   MustNewMessage(msgType, payload).msg, "nil",
                   MustNewMessage(msgType, payload).panic)

NewAuthMessageCall ==
    /\ pc = "idle"
    /\ \E apiKey \in Strs, version \in Strs :
          Returned("NewAuthMessage", [apiKey |-> apiKey, version |-> version],
                   AuthPayload(apiKey, version),
                   NewAuthMessage(apiKey, version).msg, "nil",
                   NewAuthMessage(apiKey, version).panic)

NewAuthAckMessageCall ==
    /\ pc = "idle"
    /\ \E agentID \in Strs, agentName \in Strs :
          Returned("NewAuthAckMessage", [agentID |-> agentID, agentName |-> agentName],
                   AuthAckPayload(agentID, agentName),
                   NewAuthAckMessage(agentID, agentName).msg, "nil",
                   NewAuthAckMessage(agentID, agentName).panic)

NewAuthErrorMessageCall ==
    /\ pc = "idle"
    /\ \E e \in Strs :
          Returned("NewAuthErrorMessage", [err |-> e], AuthErrorPayload(e),
                   NewAuthErrorMessage(e).msg, "nil", NewAuthErrorMessage(e).panic)

NewTaskMessageCall ==
    /\ pc = "idle"
    /\ \E monitorID \in Strs, monitorType \in Strs, target \in Strs,
          interval \in Ints, timeout \in Ints :
          Returned("NewTaskMessage",
                   [monitorID |-> monitorID, monitorType |-> monitorType,
                    target |-> target, interval |-> interval, timeout |-> timeout],
                   TaskPayload(monitorID, monitorType, target, interval, timeout),
                   NewTaskMessage(monitorID, monitorType, target, interval, timeout).msg,
                   "nil",
                   NewTaskMessage(monitorID, monitorType, target, interval, timeout).panic)

NewTaskCancelMessageCall ==
    /\ pc = "idle"
    /\ \E monitorID \in Strs :
          Returned("NewTaskCancelMessage", [monitorID |-> monitorID],
                   TaskCancelPayload(monitorID),
                   NewTaskCancelMessage(monitorID).msg, "nil",
                   NewTaskCancelMessage(monitorID).panic)

NewHeartbeatMessageCall ==
    /\ pc = "idle"
    /\ \E monitorID \in Strs, status \in Strs, latencyMs \in Ints, errorMsg \in Strs :
          Returned("NewHeartbeatMessage",
                   [monitorID |-> monitorID, status |-> status,
                    latencyMs |-> latencyMs, errorMsg |-> errorMsg],
                   HeartbeatPayload(monitorID, status, latencyMs, errorMsg, <<>>, <<>>),
                   NewHeartbeatMessage(monitorID, status, latencyMs, errorMsg).msg, "nil",
                   NewHeartbeatMessage(monitorID, status, latencyMs, errorMsg).panic)

NewPingMessageCall ==
    /\ pc = "idle"
    /\ Returned("NewPingMessage", <<>>, NilValue,
                NewPingMessage.msg, "nil", NewPingMessage.panic)

NewPongMessageCall ==
    /\ pc = "idle"
    /\ Returned("NewPongMessage", <<>>, NilValue,
                NewPongMessage.msg, "nil", NewPongMessage.panic)

NewErrorMessageCall ==
    /\ pc = "idle"
    /\ \E code \in Strs, message \in Strs :
          Returned("NewErrorMessage", [code |-> code, message |-> message],
                   ErrorPayload(code, message),
                   NewErrorMessage(code, message).msg, "nil",
                   NewErrorMessage(code, message).panic)

\* an envelope that was decoded from the wire or written as a literal
MessageLiteral ==
    /\ pc = "idle"
    /\ \E type \in {MsgTypeTask, MsgTypePing}, payload \in LiteralPayloads :
          Returned("Message", [type |-> type, payload |-> payload], NilValue,
                   Message(type, payload, [instant |-> clock, offset |-> 0]),
                   "nil", FALSE)

\* m.ParsePayload(v) on the envelope at hand
ParsePayloadCall ==
    /\ pc = "built"
    /\ msg # NoMsg
    /\ \E v \in Destinations :
          /\ dst0' = v
          /\ dst' = ParsePayload(msg, v).v
          /\ err' = ParsePayload(msg, v).err
    /\ pc' = "parsed"
    /\ op' = "ParsePayload"
    /\ UNCHANGED <<tz, clock, args, src, msg, panicked, concVars>>

Next ==
    \/ NewMessageCall
    \/ MustNewMessageCall
    \/ NewAuthMessageCall
    \/ NewAuthAckMessageCall
    \/ NewAuthErrorMessageCall
    \/ NewTaskMessageCall
    \/ NewTaskCancelMessageCall
    \/ NewHeartbeatMessageCall
    \/ NewPingMessageCall
    \/ NewPongMessageCall
    \/ NewErrorMessageCall

Spec == Init /\ [][Next]_vars

NextParse ==
    \/ NewMessageRecordCall
    \/ NewPingMessageCall
    \/ NewPongMessageCall
    \/ MessageLiteral
    \/ ParsePayloadCall

SpecParse == Init /\ [][NextParse]_vars

----------------------------------------------------------------------------
(* Construction: claims checked under Spec *)

NamedConstructors ==
    {"NewAuthMessage", "NewAuthAckMessage", "NewAuthErrorMessage", "NewTaskMessage",
     "NewTaskCancelMessage", "NewHeartbeatMessage", "NewPingMessage",
     "NewPongMessage", "NewErrorMessage"}

\* the tag the documentation gives each named constructor
DocumentedTag(o) ==
    CASE o = "NewAuthMessage" -> "auth"
      [] o = "NewAuthAckMessage" -> "auth_ack"
      [] o = "NewAuthErrorMessage" -> "auth_error"
      [] o = "NewTaskMessage" -> "task"
      [] o = "NewTaskCancelMessage" -> "task_cancel"
      [] o = "NewHeartbeatMessage" -> "heartbeat"
      [] o = "NewPingMessage" -> "ping"
      [] o = "NewPongMessage" -> "pong"
      [] o = "NewErrorMessage" -> "error"

\* C4: every named constructor returns an envelope whose type is the
\* documented tag of its kind, and that tag is the documented tag of no
\* other named constructor.
TagFidelity ==
    (pc = "built" /\ op \in NamedConstructors) =>
       /\ msg # NoMsg
       /\ msg.Type = DocumentedTag(op)
       /\ \A o \in NamedConstructors \ {op} : msg.Type # DocumentedTag(o)

TagFidelityWitness ==
    /\ pc = "built"
    /\ op = "NewTaskCancelMessage"
    /\ msg.Type = "task_cancel"
    /\ args.monitorID = <<"a", "<">>

\* C5: NewMessage returns an error and no envelope exactly when the
\* payload cannot be serialized; MustNewMessage panics exactly when
\* NewMessage on the same arguments returns an error, and otherwise returns
\* an envelope with the type and payload NewMessage returns.
FailFastVersusRecoverable ==
    /\ (pc = "built" /\ op = "NewMessage") =>
          /\ args.payload = ChanValue => (err # "nil" /\ msg = NoMsg)
          /\ args.payload # ChanValue => (err = "nil" /\ msg # NoMsg)
          /\ ~panicked
    /\ (pc = "built" /\ op = "MustNewMessage") =>
          /\ panicked <=> NewMessage(args.msgType, args.payload).err # "nil"
          /\ panicked <=> args.payload = ChanValue
          /\ ~panicked =>
                /\ msg # NoMsg
                /\ msg.Type = NewMessage(args.msgType, args.payload).msg.Type
                /\ msg.Type = args.msgType
                /\ msg.Payload = NewMessage(args.msgType, args.payload).msg.Payload

FailFastWitness ==
    /\ pc = "built"
    /\ op = "MustNewMessage"
    /\ args.payload = ChanValue
    /\ panicked

\* the envelope NewMessage returns for the kind's tag and the payload record
\* built from the constructor's arguments, other fields left at zero
ManualConstruction ==
    CASE op = "NewAuthMessage" ->
           NewMessage("auth", [t |-> "AuthPayload",
                               f |-> [APIKey |-> args.apiKey, Version |-> args.version]])
      [] op = "NewAuthAckMessage" ->
           NewMessage("auth_ack", [t |-> "AuthAckPayload",
                                   f |-> [AgentID |-> args.agentID,
                                          AgentName |-> args.agentName]])
      [] op = "NewAuthErrorMessage" ->
           NewMessage("auth_error", [t |-> "AuthErrorPayload", f |-> [Error |-> args.err]])
      [] op = "NewTaskMessage" ->
           NewMessage("task", [t |-> "TaskPayload",
                               f |-> [MonitorID |-> args.monitorID,
                                      Type |-> args.monitorType,
                                      Target |-> args.target,
                                      Interval |-> args.interval,
                                      Timeout |-> args.timeout]])
      [] op = "NewTaskCancelMessage" ->
           NewMessage("task_cancel", [t |-> "TaskCancelPayload",
                                      f |-> [MonitorID |-> args.monitorID]])
      [] op = "NewHeartbeatMessage" ->
           NewMessage("heartbeat", [t |-> "HeartbeatPayload",
                                    f |-> [MonitorID |-> args.monitorID,
                                           Status |-> args.status,
                                           LatencyMs |-> args.latencyMs,
                                           ErrorMessage |-> args.errorMsg,
                                           CertExpiryDays |-> <<>>,
                                           CertIssuer |-> <<>>]])
      [] op = "NewPingMessage" -> NewMessage("ping", NilValue)
      [] op = "NewPongMessage" -> NewMessage("pong", NilValue)
      [] op = "NewErrorMessage" ->
           NewMessage("error", [t |-> "ErrorPayload",
                                f |-> [Code |-> args.code, Message |-> args.message]])

\* C6: a named constructor never panics and returns an envelope with the
\* type and payload of the envelope NewMessage returns for the same kind and
\* field values.
NamedEqualsManual ==
    (pc = "built" /\ op \in NamedConstructors) =>
       /\ ~panicked
       /\ ManualConstruction.err = "nil"
       /\ msg.Type = ManualConstruction.msg.Type
       /\ msg.Payload = ManualConstruction.msg.Payload

NamedEqualsManualWitness ==
    /\ pc = "built"
    /\ op = "NewHeartbeatMessage"
    /\ args.errorMsg = <<"a", "<">>
    /\ args.latencyMs = 1
    /\ \E i \in 1..Len(msg.Payload.m) : msg.Payload.m[i].key = "error_message"

\* C8: every constructed envelope carries the construction instant
\* expressed in UTC, whatever the local zone of the process.
TimestampIsUTC ==
    (pc = "built" /\ op # "Message" /\ msg # NoMsg) =>
       /\ msg.Timestamp.instant = clock
       /\ msg.Timestamp.offset = 0

\* the keys of a payload object
Keys(data) == {data.m[i].key : i \in 1..Len(data.m)}

\* C9: the JSON of a HeartbeatPayload always has monitor_id and status and
\* omits each optional field exactly when it is at its zero value; a
\* cert_expiry_days pointing to 0 is kept.
OptionalFieldOmission ==
    (pc = "built" /\ src.t = "HeartbeatPayload" /\ msg # NoMsg) =>
       /\ msg.Payload.k = "object"
       /\ "monitor_id" \in Keys(msg.Payload)
       /\ "status" \in Keys(msg.Payload)
       /\ "latency_ms" \notin Keys(msg.Payload) <=> src.f.LatencyMs = 0
       /\ "error_message" \notin Keys(msg.Payload) <=> src.f.ErrorMessage = <<>>
       /\ "cert_expiry_days" \notin Keys(msg.Payload) <=> src.f.CertExpiryDays = <<>>
       /\ "cert_issuer" \notin Keys(msg.Payload) <=> src.f.CertIssuer = <<>>
       /\ Keys(msg.Payload) \subseteq
             {"monitor_id", "status", "latency_ms", "error_message",
              "cert_expiry_days", "cert_issuer"}

OptionalFieldOmissionWitness ==
    /\ pc = "built"
    /\ src.t = "HeartbeatPayload"
    /\ src.f.CertExpiryDays = <<0>>
    /\ src.f.LatencyMs = 0
    /\ msg # NoMsg
    /\ "cert_expiry_days" \in Keys(msg.Payload)
    /\ "latency_ms" \notin Keys(msg.Payload)

----------------------------------------------------------------------------
(* Extraction: claims checked under SpecParse *)

StringFields(P) == {n \in FieldNames(P) : FieldByName(P, n).typ = "string"}

\* p with every byte that is not valid UTF-8 replaced by U+FFFD
Coerced(p) ==
    [t |-> p.t,
     f |-> [n \in FieldNames(p.t) |->
              IF n \in StringFields(p.t)
              THEN [i \in 1..Len(p.f[n]) |->
                      IF p.f[n][i] = "xFF" THEN "uFFFD" ELSE p.f[n][i]]
              ELSE p.f[n]]]

\* the round trip of a payload record: built by NewMessage under its own
\* tag, then extracted into a fresh destination of its type
RoundTripDone ==
    /\ pc = "parsed"
    /\ src.t \in PayloadTypes
    /\ dst0 = ZeroValue(src.t)

\* C1 as stated: the round trip of every instance succeeds and yields a
\* value equal to the instance in all fields.
RoundTrip ==
    RoundTripDone => (err = "nil" /\ dst = src)

\* C1 amended: the round trip of every instance succeeds; it yields a value
\* equal to the instance in all fields when the instance's strings are valid
\* UTF-8, and the instance with each invalid byte replaced by U+FFFD
\* otherwise.  cert_expiry_days comes back absent when absent and present
\* with its value, 0 included, when present.
RoundTripValidUTF8 ==
    RoundTripDone =>
       /\ err = "nil"
       /\ dst = Coerced(src)
       /\ (\A n \in StringFields(src.t) : ValidUTF8(src.f[n])) => dst = src
       /\ src.t = "HeartbeatPayload" => dst.f.CertExpiryDays = src.f.CertExpiryDays

RoundTripWitness ==
    /\ RoundTripDone
    /\ src.t = "HeartbeatPayload"
    /\ src.f.CertExpiryDays = <<0>>
    /\ src.f.Status = <<"a", "<">>
    /\ src.f.MonitorID = <<"a", "<">>
    /\ src.f.ErrorMessage = <<>>
    /\ src.f.CertIssuer = <<>>
    /\ dst = src

\* a JSON value that cannot be stored into a field of the type
Mismatched(typ, val) ==
    /\ val.k # "null"
    /\ \/ typ = "string" /\ val.k # "string"
       \/ typ \in {"int", "ptrint"} /\ val.k # "number"

\* the members of a payload object that select field n of record P
MembersOf(data, P, n) ==
    {i \in 1..Len(data.m) :
       /\ FieldIndex(P, data.m[i].key) # 0
       /\ Fields(P)[FieldIndex(P, data.m[i].key)].name = n}

\* payload bytes that cannot be decoded as the shape of record P
Malformed(data, P) ==
    \/ data.k \in {"empty", "invalid", "string", "number", "fraction"}
    \/ /\ data.k = "object"
       /\ \E n \in FieldNames(P) : \E i \in MembersOf(data, P, n) :
             Mismatched(FieldByName(P, n).typ, data.m[i].val)

\* C2 as stated: on malformed payload bytes ParsePayload reports an error
\* and every field of the destination has the value it had before the call.
MalformedLeavesDestination ==
    (pc = "parsed" /\ Malformed(msg.Payload, dst0.t)) =>
       (err # "nil" /\ dst = dst0)

\* C2 amended: on malformed payload bytes ParsePayload reports an error;
\* the destination is unchanged when the bytes are not a JSON object, and
\* when they are an object with a mismatched member every string or int
\* field that no member gives a well-typed value keeps its value (the
\* well-typed members are still decoded into the destination).
MalformedReportsError ==
    (pc = "parsed" /\ Malformed(msg.Payload, dst0.t)) =>
       /\ err # "nil"
       /\ msg.Payload.k # "object" => dst = dst0
       /\ msg.Payload.k = "object" =>
             \A n \in FieldNames(dst0.t) :
                (/\ FieldByName(dst0.t, n).typ \in {"string", "int"}
                 /\ \A i \in MembersOf(msg.Payload, dst0.t, n) :
                       \/ msg.Payload.m[i].val.k = "null"
                       \/ Mismatched(FieldByName(dst0.t, n).typ, msg.Payload.m[i].val))
                => dst.f[n] = dst0.f[n]

MalformedWitness ==
    /\ pc = "parsed"
    /\ dst0 = UsedValue("TaskPayload")
    /\ msg.Payload = JObject(<<Member("interval", JString(<<"a">>)),
                               Member("monitor_id", JString(<<"a">>))>>)
    /\ err = "UnmarshalTypeError"
    /\ dst.f.Interval = 1
    /\ dst.f.MonitorID = <<"a">>

\* C3: on an envelope whose payload is nil or zero-length ParsePayload
\* reports no error and leaves the destination unmodified.
EmptyPayloadIsNoOp ==
    (pc = "parsed" /\ msg.Payload.k \in {"nil", "empty"}) =>
       (err = "nil" /\ dst = dst0)

\* C7 as stated: after a successful ParsePayload on a present payload, every
\* field whose key does not occur in the payload holds its zero value.
AbsentFieldsAreZero ==
    (pc = "parsed" /\ msg.Payload.k \in {"null", "object"} /\ err = "nil") =>
       \A n \in FieldNames(dst0.t) :
          MembersOf(msg.Payload, dst0.t, n) = {} =>
             dst.f[n] = ZeroOf(FieldByName(dst0.t, n).typ)

\* the payload object without the members that select no field of P
RECURSIVE KnownMembers(_, _)
KnownMembers(members, P) ==
    IF members = <<>> THEN <<>>
    ELSE IF \E i \in 1..Len(Fields(P)) :
               Fields(P)[i].key \in {Head(members).key, FoldKey(Head(members).key)}
         THEN <<Head(members)>> \o KnownMembers(Tail(members), P)
         ELSE KnownMembers(Tail(members), P)

\* C7 amended: after a successful ParsePayload on a present payload, every
\* field that no key of the payload selects holds the value it had before
\* the call (its zero value in a fresh destination); keys that select no
\* field of the destination are ignored and cause no error.
AbsentFieldsKeepValue ==
    /\ (pc = "parsed" /\ msg.Payload.k \in {"null", "object"} /\ err = "nil") =>
          \A n \in FieldNames(dst0.t) :
             MembersOf(msg.Payload, dst0.t, n) = {} =>
                /\ dst.f[n] = dst0.f[n]
                /\ dst0 = ZeroValue(dst0.t) =>
                      dst.f[n] = ZeroOf(FieldByName(dst0.t, n).typ)
    /\ (pc = "parsed" /\ msg.Payload.k = "object") =>
          /\ err # "nil" => Malformed(msg.Payload, dst0.t)
          /\ dst = Unmarshal(JObject(KnownMembers(msg.Payload.m, dst0.t)), dst0).v
          /\ err = Unmarshal(JObject(KnownMembers(msg.Payload.m, dst0.t)), dst0).err

AbsentFieldsWitness ==
    /\ pc = "parsed"
    /\ dst0 = UsedValue("TaskPayload")
    /\ msg.Payload = JObject(<<Member("extra", JNumber(1)),
                               Member("monitor_id", JString(<<"a">>))>>)
    /\ err = "nil"
    /\ dst.f.MonitorID = <<"a">>
    /\ dst.f.Target = <<"o">>

----------------------------------------------------------------------------
(* Concurrent callers: each call runs in its own steps, interleaved with   *)
(* the steps of the others and with the clock.  Calls share nothing but    *)
(* the clock and, for ParsePayload, the envelope they read.                *)

Callers == 1..NumCallers

Call(o, msgType, payload, m, v) ==
    [op |-> o, msgType |-> msgType, payload |-> payload, m |-> m, v |-> v]

\* envelopes several callers parse at the same time
SharedEnvelopes ==
    {Message(MsgTypePing, NilBytes, [instant |-> 0, offset |-> 0]),
     Message(MsgTypeTask,
             JObject(<<Member("interval", JString(<<"a">>)),
                       Member("monitor_id", JString(<<"a">>))>>),
             [instant |-> 0, offset |-> 0]),
     Message(MsgTypeHeartbeat,
             JObject(<<Member("monitor_id", JString(<<"\\u003c">>)),
                       Member("cert_expiry_days", JNumber(0))>>),
             [instant |-> 0, offset |-> 0])}

\* the calls a caller may be running, on the shared envelope e
CallsOn(e) ==
    {Call("NewMessage", "custom", p, NoMsg, NoDst) :
        p \in {ChanValue, NilValue, TaskCancelPayload(<<"a">>)}}
      \cup {Call("MustNewMessage", MsgTypeAuthError, p, NoMsg, NoDst) :
              p \in {ChanValue, AuthErrorPayload(<<"a", "xFF">>)}}
      \cup {Call("NewTaskCancelMessage", MsgTypeTaskCancel,
                 TaskCancelPayload(<<"a", "<">>), NoMsg, NoDst)}
      \cup {Call("ParsePayload", "", NilValue, e, v) :
              v \in {ZeroValue("TaskPayload"), UsedValue("HeartbeatPayload")}}

NoRet == [msg |-> NoMsg, err |-> "nil", panic |-> FALSE]
NoData == [data |-> NilBytes, i |-> 0, e |-> "nil"]

InitConc ==
    /\ tz \in Zones
    /\ clock = 0
    /\ pc = "concurrent"
    /\ op = "none"
    /\ args = <<>>
    /\ src = NilValue
    /\ msg = NoMsg
    /\ err = "nil"
    /\ panicked = FALSE
    /\ dst0 = NoDst
    /\ dst = NoDst
    /\ env \in SharedEnvelopes
    /\ ccall \in [Callers -> CallsOn(env)]
    /\ cpc = [c \in Callers |-> "start"]
    /\ cdata = [c \in Callers |-> NoData]
    /\ cret = [c \in Callers |-> NoRet]
    /\ cdst = [c \in Callers |-> ccall[c].v]

\* the clock advances between any two steps
Tick ==
    /\ clock < MaxClock
    /\ clock' = clock + 1
    /\ UNCHANGED <<tz, seqVars, concVars>>

\* NewMessage, lines 30-37: encode the payload into the call's own buffer,
\* or return the error (which MustNewMessage turns into a panic)
MarshalStepSharedBuffer(c) ==
    /\ cpc[c] = "start"
    /\ ccall[c].op # "ParsePayload"
    /\ IF ccall[c].payload # NilValue /\ Marshal(ccall[c].payload).err # "nil"
       THEN /\ cpc' = [cpc EXCEPT ![c] = "done"]
            /\ cret' = [cret EXCEPT ![c] =
                          IF ccall[c].op = "NewMessage"
                          THEN [msg |-> NoMsg, err |-> Marshal(ccall[c].payload).err,
                                panic |-> FALSE]
                          ELSE [msg |-> NoMsg, err |-> "nil", panic |-> TRUE]]
            /\ UNCHANGED cdata
       ELSE /\ cpc' = [cpc EXCEPT ![c] = "marshalled"]
            /\ cdata' = [cdata EXCEPT ![1].data =
                            IF ccall[c].payload # NilValue
                            THEN Marshal(ccall[c].payload).data
                            ELSE NilBytes]
            /\ UNCHANGED cret
    /\ UNCHANGED <<tz, clock, seqVars, ccall, cdst, env>>
MarshalStep(c) ==
    /\ cpc[c] = "start"
    /\ ccall[c].op # "ParsePayload"
    /\ IF ccall[c].payload # NilValue /\ Marshal(ccall[c].payload).err # "nil"
       THEN /\ cpc' = [cpc EXCEPT ![c] = "done"]
            /\ cret' = [cret EXCEPT ![c] =
                          IF ccall[c].op = "NewMessage"
                          THEN [msg |-> NoMsg, err |-> Marshal(ccall[c].payload).err,
                                panic |-> FALSE]
                          ELSE [msg |-> NoMsg, err |-> "nil", panic |-> TRUE]]
            /\ UNCHANGED cdata
       ELSE /\ cpc' = [cpc EXCEPT ![c] = "marshalled"]
            /\ cdata' = [cdata EXCEPT ![c].data =
                            IF ccall[c].payload # NilValue
                            THEN Marshal(ccall[c].payload).data
                            ELSE NilBytes]
            /\ UNCHANGED cret
    /\ UNCHANGED <<tz, clock, seqVars, ccall, cdst, env>>

\* NewMessage, lines 39-43: read the clock and return the envelope
ReturnStep(c) ==
    /\ cpc[c] = "marshalled"
    /\ cpc' = [cpc EXCEPT ![c] = "done"]
    /\ cret' = [cret EXCEPT ![c] =
                  [msg |-> Message(ccall[c].msgType, cdata[c].data, TimeNow),
                   err |-> "nil", panic |-> FALSE]]
    /\ UNCHANGED <<tz, clock, seqVars, ccall, cdata, cdst, env>>

\* ParsePayload, lines 48-50, and the part of json.Unmarshal that runs
\* before any field is written: the nil check, the validity scan, null and
\* values that are not objects
ParseStartStep(c) ==
    /\ cpc[c] = "start"
    /\ ccall[c].op = "ParsePayload"
    /\ IF env.Payload.k = "object"
       THEN /\ cpc' = [cpc EXCEPT ![c] = "decoding"]
            /\ cdata' = [cdata EXCEPT ![c].i = 1]
            /\ UNCHANGED cret
       ELSE /\ cpc' = [cpc EXCEPT ![c] = "done"]
            /\ cret' = [cret EXCEPT ![c].err = ParsePayload(env, cdst[c]).err]
            /\ UNCHANGED cdata
    /\ UNCHANGED <<tz, clock, seqVars, ccall, cdst, env>>

\* json.Unmarshal, line 51: the members are stored one at a time into the
\* caller's destination; the first error is returned after the last
ParseMemberStep(c) ==
    /\ cpc[c] = "decoding"
    /\ IF cdata[c].i > Len(env.Payload.m)
       THEN /\ cpc' = [cpc EXCEPT ![c] = "done"]
            /\ cret' = [cret EXCEPT ![c].err = cdata[c].e]
            /\ UNCHANGED <<cdata, cdst>>
       ELSE LET r == DecodeMembers(<<env.Payload.m[cdata[c].i]>>, cdst[c].t,
                                   cdst[c].f, cdata[c].e)
            IN /\ cdst' = [cdst EXCEPT ![c].f = r.f]
               /\ cdata' = [cdata EXCEPT ![c].i = @ + 1, ![c].e = r.err]
               /\ UNCHANGED <<cpc, cret>>
    /\ UNCHANGED <<tz, clock, seqVars, ccall, env>>

NextConc ==
    \/ Tick
    \/ \E c \in Callers : MarshalStep(c)
    \/ \E c \in Callers : ReturnStep(c)
    \/ \E c \in Callers : ParseStartStep(c)
    \/ \E c \in Callers : ParseMemberStep(c)

SpecConc == InitConc /\ [][NextConc]_vars

\* C10: under every interleaving, a finished call has returned the type,
\* payload, error and destination contents it returns when it runs alone,
\* the envelope the ParsePayload calls share is as it was, and a call that
\* has not started has had neither its result nor its destination written.
ConcurrentMatchesAlone ==
    \A c \in Callers :
       /\ (cpc[c] = "start" /\ pc = "concurrent") =>
             (cret[c] = NoRet /\ cdst[c] = ccall[c].v /\ cdata[c] = NoData)
       /\ (cpc[c] = "done" /\ ccall[c].op = "NewMessage") =>
             /\ cret[c].err = NewMessage(ccall[c].msgType, ccall[c].payload).err
             /\ cret[c].msg.Type = NewMessage(ccall[c].msgType, ccall[c].payload).msg.Type
             /\ cret[c].msg.Payload =
                   NewMessage(ccall[c].msgType, ccall[c].payload).msg.Payload
             /\ ~cret[c].panic
       /\ (cpc[c] = "done" /\ ccall[c].op \in {"MustNewMessage", "NewTaskCancelMessage"}) =>
             /\ cret[c].panic = MustNewMessage(ccall[c].msgType, ccall[c].payload).panic
             /\ cret[c].msg.Type =
                   MustNewMessage(ccall[c].msgType, ccall[c].payload).msg.Type
             /\ cret[c].msg.Payload =
                   MustNewMessage(ccall[c].msgType, ccall[c].payload).msg.Payload
       /\ (cpc[c] = "done" /\ ccall[c].op = "ParsePayload") =>
             /\ cret[c].err = ParsePayload(ccall[c].m, ccall[c].v).err
             /\ cdst[c] = ParsePayload(ccall[c].m, ccall[c].v).v
       /\ (pc = "concurrent" /\ ccall[c].op = "ParsePayload") => env = ccall[c].m
       /\ (pc = "concurrent" /\ ccall[c].op # "ParsePayload") => cdst[c] = NoDst

ConcurrentWitness ==
    /\ pc = "concurrent"
    /\ \A c \in Callers : cpc[c] = "done"
    /\ ccall[1].op = "ParsePayload"
    /\ ccall[2].op = "ParsePayload"
    /\ ccall[1].v # ccall[2].v
    /\ env.Payload.k = "object"
    /\ cret[1].err = "UnmarshalTypeError"
    /\ cdst[1] # cdst[2]
    /\ clock = MaxClock

====
